---------------------------- MODULE Spec2Model ----------------------------
(***************************************************************************)
(* Digital Warranty & Repair Ticketing System: the ticket lifecycle and    *)
(* authorization engine (Flask handlers of routes/admin.py,                *)
(* routes/customer.py, routes/technician.py, routes/auth.py over the       *)
(* SQLAlchemy models of models.py).                                        *)
(*                                                                         *)
(* One action per request handler.  A handler that ends without a commit   *)
(* leaves the database as it was; the outcome of the handler is recorded   *)
(* in `last`.  Time is counted in days.                                    *)
(***************************************************************************)
EXTENDS Integers, Sequences, FiniteSets, TLC

(***************************************************************************)
(* Bounds of the model and program constants.                              *)
(***************************************************************************)
MaxLog == 3            \* rows of activity_logs a behaviour may write
MaxTicks == 2          \* steps the clock may take
DaysPerMonth == 30     \* timedelta(days=30*warranty_months)
ExpiringSoonDays == 30 \* Product.warranty_status: days_remaining < 30
MinWarrantyMonths == 1      \* ProductForm.warranty_months: NumberRange(min=1,
MaxWarrantyMonths == 120    \*                                max=120)

UserIds == {1, 2, 3}   \* users.id values that requests may name
TicketIds == {1}       \* tickets.id values that requests may name
ProductIds == {1}      \* products.id values that requests may name
NoteIds == {1}         \* repair_notes.id values a behaviour may write
Workers == {1, 2}      \* request workers serving concurrently

Roles == {"customer", "technician", "admin"}
Statuses == {"open", "in_progress", "waiting_for_parts", "completed",
             "closed", "rejected"}
RepairTypes == {"warranty", "paid"}
\* an optional column or form field: <<>> is None, <<v>> is the value v
CostInputs == {<<>>, <<250>>}
PurchaseDates == {0}
WarrantyMonthsInputs == {1, 2}
SerialInputs == {"SN1"}
CatalogIds == {1, 2}                \* products.id values of a two-row catalog
CatalogSerials == {"SN1", "SN2"}    \* serial numbers its forms submit
Ratings == {5}

VARIABLES
    users,        \* table users: sequence indexed by id
    loggedIn,     \* ids whose browser session holds a Flask-Login user id
    activeGate,   \* whether UserMixin.is_authenticated reads User.is_active
    products,     \* table products: sequence indexed by id
    now,          \* datetime.utcnow(), in days
    tickets,      \* table tickets: sequence indexed by id
    notes,        \* table repair_notes, in insertion order
    feedback,     \* table feedback, in insertion order
    log,          \* table activity_logs, in insertion order
    reqs,         \* per worker: the update_status request it is serving
    commits,      \* history: the update_status commits, in commit order
    last          \* the handler that ran last, its caller and its outcome

vars == <<users, loggedIn, activeGate, products, now, tickets, notes,
          feedback, log, reqs, commits, last>>

\* everything a handler that commits nothing leaves alone
stored == <<users, loggedIn, activeGate, products, now, tickets, notes,
            feedback, log, reqs, commits>>

(***************************************************************************)
(* Rows.                                                                   *)
(***************************************************************************)
NewUser(role) == [role |-> role, is_active |-> TRUE, is_deleted |-> FALSE]

NewProduct(owner, serial, purchase, months) ==
    [user_id |-> owner, serial_number |-> serial, purchase_date |-> purchase,
     warranty_months |-> months,
     warranty_expiry |-> purchase + DaysPerMonth * months,
     is_deleted |-> FALSE]

NewTicket(customer, product, covered) ==
    [customer_id |-> customer, product_id |-> product, technician_id |-> 0,
     status |-> "open", repair_cost |-> <<>>,
     is_warranty_covered |-> covered, is_paid |-> FALSE,
     is_deleted |-> FALSE]

Activity(user, action, rtype, rid) ==
    [user_id |-> user, action |-> action, resource_type |-> rtype,
     resource_id |-> rid]

Outcome(op, user, target, result) ==
    [op |-> op, user |-> user, target |-> target, result |-> result]

IdleReq == [pc |-> "idle"]

(***************************************************************************)
(* Identity and role model.                                                *)
(***************************************************************************)
UserExists(u) == u \in 1..Len(users)
TicketExists(t) == t \in 1..Len(tickets)
ProductExists(p) == p \in 1..Len(products)

is_admin(u) == users[u].role = "admin"
is_technician(u) == users[u].role = "technician"
is_customer(u) == users[u].role = "customer"

\* current_user.is_authenticated: the session names a stored user; whether
\* the property also reads the is_active column depends on the Flask-Login
\* release the application is built with.
is_authenticated(u) ==
    /\ u \in loggedIn
    /\ UserExists(u)
    /\ (activeGate => users[u].is_active)

\* @login_required followed by @customer_required
customer_required(u) ==
    IF ~is_authenticated(u) \/ users[u].is_deleted THEN "Unauthenticated"
    ELSE IF is_admin(u) \/ is_technician(u) THEN "Forbidden"
    ELSE "ok"

\* @login_required followed by @technician_required
technician_required(u) ==
    IF ~is_authenticated(u) \/ users[u].is_deleted THEN "Unauthenticated"
    ELSE IF ~is_technician(u) /\ ~is_admin(u) THEN "Forbidden"
    ELSE "ok"

\* @login_required followed by @admin_required
admin_required(u) ==
    IF ~is_authenticated(u) \/ users[u].is_deleted THEN "Unauthenticated"
    ELSE IF ~is_admin(u) THEN "Forbidden"
    ELSE "ok"

(***************************************************************************)
(* Initial states.                                                         *)
(***************************************************************************)
\* create_app(): empty tables and the default admin account
InitConstructed ==
    /\ users = <<NewUser("admin")>>
    /\ loggedIn = {}
    /\ activeGate \in BOOLEAN
    /\ products = <<>>
    /\ now = 0
    /\ tickets = <<>>
    /\ notes = <<>>
    /\ feedback = <<>>
    /\ log = <<>>
    /\ reqs = [w \in Workers |-> IdleReq]
    /\ commits = <<>>
    /\ last = Outcome("create_app", 0, 0, "ok")

\* the state after the default admin has logged in, one technician and one
\* customer have registered and logged in, and the customer has registered
\* one product with a one-month warranty
InitProvisioned ==
    /\ users = <<NewUser("admin"), NewUser("technician"), NewUser("customer")>>
    /\ loggedIn = {1, 2, 3}
    /\ activeGate = TRUE
    /\ products = <<NewProduct(3, "SN1", 0, 1)>>
    /\ now = 0
    /\ tickets = <<>>
    /\ notes = <<>>
    /\ feedback = <<>>
    /\ log = <<>>
    /\ reqs = [w \in Workers |-> IdleReq]
    /\ commits = <<>>
    /\ last = Outcome("login", 3, 0, "ok")

\* the state after two customers have registered and logged in, next to the
\* default admin
InitCustomers ==
    /\ users = <<NewUser("admin"), NewUser("customer"), NewUser("customer")>>
    /\ loggedIn = {1, 2, 3}
    /\ activeGate = TRUE
    /\ products = <<>>
    /\ now = 0
    /\ tickets = <<>>
    /\ notes = <<>>
    /\ feedback = <<>>
    /\ log = <<>>
    /\ reqs = [w \in Workers |-> IdleReq]
    /\ commits = <<>>
    /\ last = Outcome("login", 3, 0, "ok")

(***************************************************************************)
(* Handlers.  Each handler has a result operator, translated from the      *)
(* handler's early returns in source order, and an action that commits     *)
(* the handler's writes when the result is "ok".  The actions say nothing  *)
(* about `last`: a specification either records each request in it         *)
(* (Observed) or leaves it alone (Silent).                                 *)
(***************************************************************************)
\* a handler that returns before session.commit() writes nothing
Rejected == UNCHANGED stored

\* the clock: datetime.utcnow() moves on between requests
Tick ==
    /\ now < MaxTicks * DaysPerMonth
    /\ now' = now + DaysPerMonth
    /\ UNCHANGED <<users, loggedIn, activeGate, products, tickets, notes,
                   feedback, log, reqs, commits>>

----------------------------------------------------------------------------
\* customer.raise_ticket
warranty_expired(p) == products[p].warranty_expiry < now

\* Product.warranty_status, the coverage state the pages show
warranty_status(p) ==
    IF products[p].is_deleted THEN "deleted"
    ELSE IF products[p].warranty_expiry < now THEN "expired"
    ELSE IF products[p].warranty_expiry - now < ExpiringSoonDays
         THEN "expiring_soon"
    ELSE "active"

\* a variant of the choices that offers the soft-deleted products too
ProductChoicesWithDeleted(u) ==
    {p \in 1..Len(products) : products[p].user_id = u}

\* the choices of TicketForm.product_id: validate_on_submit() refuses a
\* product_id that is not among them
ProductChoices(u) ==
    {p \in 1..Len(products) : products[p].user_id = u /\ ~products[p].is_deleted}

\* a variant without the check of the repair type against the warranty
RaiseTicketResultNoPolicy(u, p, repair_type) ==
    IF customer_required(u) # "ok" THEN customer_required(u)
    ELSE IF p \notin ProductChoices(u) THEN "Forbidden"
    ELSE IF ~ProductExists(p) THEN "Forbidden"
    ELSE IF products[p].user_id # u THEN "Forbidden"
    ELSE "ok"

\* a variant that accepts any stored product that is not soft-deleted
RaiseTicketResultAnyProduct(u, p, repair_type) ==
    IF customer_required(u) # "ok" THEN customer_required(u)
    ELSE IF ~ProductExists(p) THEN "Forbidden"
    ELSE IF products[p].is_deleted THEN "Forbidden"
    ELSE IF warranty_expired(p) /\ repair_type = "warranty"
         THEN "PolicyViolation"
    ELSE "ok"

RaiseTicketResult(u, p, repair_type) ==
    IF customer_required(u) # "ok" THEN customer_required(u)
    ELSE IF p \notin ProductChoices(u) THEN "Forbidden"
    ELSE IF ~ProductExists(p) THEN "Forbidden"
    ELSE IF products[p].user_id # u THEN "Forbidden"
    ELSE IF warranty_expired(p) /\ repair_type = "warranty"
         THEN "PolicyViolation"
    ELSE "ok"

\* a variant that covers every product still under warranty, whatever the
\* customer chose
CoveredWhenInWarranty(p, repair_type) == ~warranty_expired(p)

CoveredAtCreation(p, repair_type) ==
    repair_type = "warranty" /\ ~warranty_expired(p)

raise_ticket(u, p, repair_type) ==
    LET res == RaiseTicketResult(u, p, repair_type) IN
    IF res # "ok" THEN Rejected
    ELSE /\ Len(tickets) < Cardinality(TicketIds)
         /\ tickets' = Append(tickets,
                               NewTicket(u, p, CoveredAtCreation(p, repair_type)))
         /\ UNCHANGED <<users, loggedIn, activeGate, products, now, notes,
                        feedback, log, reqs, commits>>

----------------------------------------------------------------------------
\* admin.assign_technician
\* a variant of the choices that offers the deactivated technicians too
TechnicianChoicesWithInactive ==
    {x \in 1..Len(users) : users[x].role = "technician" /\ ~users[x].is_deleted}

\* the choices of AssignTechnicianForm.technician_id
TechnicianChoices ==
    {x \in 1..Len(users) : /\ users[x].role = "technician"
                           /\ users[x].is_active
                           /\ ~users[x].is_deleted}

AssignTechnicianResult(a, t, tech) ==
    IF admin_required(a) # "ok" THEN admin_required(a)
    ELSE IF ~TicketExists(t) THEN "NotFound"
    ELSE IF tickets[t].is_deleted THEN "NotFound"
    ELSE IF tech \notin TechnicianChoices THEN "NotFound"
    ELSE "ok"

\* a variant that derives the coverage again from the product's warranty
AssignedRecomputing(tk, tech) ==
    [tk EXCEPT !.technician_id = tech, !.status = "in_progress",
               !.is_warranty_covered = ~warranty_expired(tk.product_id)]

\* a variant that moves the ticket on and forgets the technician
AssignedStatusOnly(tk, tech) == [tk EXCEPT !.status = "in_progress"]

\* the writes of a successful assignment to the loaded ticket
Assigned(tk, tech) ==
    [tk EXCEPT !.technician_id = tech, !.status = "in_progress"]

assign_technician(a, t, tech) ==
    LET res == AssignTechnicianResult(a, t, tech) IN
    IF res # "ok" THEN Rejected
    ELSE /\ Len(log) < MaxLog
         /\ tickets' = [tickets EXCEPT ![t] = Assigned(tickets[t], tech)]
         /\ log' = Append(log, Activity(a, "ticket_assigned", "ticket", t))
         /\ UNCHANGED <<users, loggedIn, activeGate, products, now, notes,
                        feedback, reqs, commits>>

----------------------------------------------------------------------------
\* technician.update_status
\* a variant without the check
CompletedLockOff(tk) == FALSE

\* "do not allow changes once the ticket is completed"
CompletedLock(tk) == tk.status = "completed"

\* a variant that lets every technician edit every ticket
UpdateStatusAccessAnyTechnician(u, t) ==
    IF technician_required(u) # "ok" THEN technician_required(u)
    ELSE IF ~TicketExists(t) THEN "NotFound"
    ELSE IF CompletedLock(tickets[t]) THEN "InvalidTransition"
    ELSE "ok"

UpdateStatusAccess(u, t) ==
    IF technician_required(u) # "ok" THEN technician_required(u)
    ELSE IF ~TicketExists(t) THEN "NotFound"
    ELSE IF tickets[t].technician_id # u /\ ~is_admin(u) THEN "Forbidden"
    ELSE IF CompletedLock(tickets[t]) THEN "InvalidTransition"
    ELSE "ok"

\* a variant without the two repair-cost checks
UpdateStatusBodyUngated(tk, status, cost) ==
    [result |-> "ok",
     ticket |-> [tk EXCEPT !.status = status,
                           !.repair_cost = IF cost # <<>> THEN cost ELSE @]]

\* the body of the try block on the loaded ticket tk: the result, and the
\* ticket object as the session holds it when the handler commits
UpdateStatusBody(tk, status, cost) ==
    LET old_status == tk.status
        noPrice == /\ status = "completed"
                   /\ ~tk.is_warranty_covered
                   /\ cost = <<>>
                   /\ tk.repair_cost = <<>>
        written == [tk EXCEPT !.status = status,
                              !.repair_cost = IF cost # <<>> THEN cost ELSE @]
        stillNoPrice == /\ old_status # "completed"
                        /\ status = "completed"
                        /\ ~tk.is_warranty_covered
                        /\ written.repair_cost = <<>>
    IN  IF noPrice \/ stillNoPrice
        THEN [result |-> "MissingRepairCost", ticket |-> tk]
        ELSE [result |-> "ok", ticket |-> written]

\* session.commit(): the UPDATE sets the columns whose value in the session
\* differs from the value loaded, in the row as the database holds it
Flush(row, loaded, obj) ==
    [f \in DOMAIN row |-> IF obj[f] # loaded[f] THEN obj[f] ELSE row[f]]

update_status(u, t, status, cost) ==
    LET acc == UpdateStatusAccess(u, t) IN
    IF acc # "ok" THEN Rejected
    ELSE LET body == UpdateStatusBody(tickets[t], status, cost) IN
         IF body.result # "ok"
         THEN Rejected
         ELSE /\ Len(log) < MaxLog
              /\ tickets' = [tickets EXCEPT
                                ![t] = Flush(tickets[t], tickets[t], body.ticket)]
              /\ log' = Append(log, Activity(u, "ticket_status_updated",
                                             "ticket", t))
              /\ UNCHANGED <<users, loggedIn, activeGate, products, now,
                             notes, feedback, reqs, commits>>

----------------------------------------------------------------------------
\* technician.add_note
AddNoteResult(u, t) ==
    IF technician_required(u) # "ok" THEN technician_required(u)
    ELSE IF ~TicketExists(t) THEN "NotFound"
    ELSE IF tickets[t].technician_id # u /\ ~is_admin(u) THEN "Forbidden"
    ELSE "ok"

\* a variant that rewrites the ticket's stored note when there is one
add_note_upsert(u, t) ==
    LET res == AddNoteResult(u, t)
        mine == {i \in 1..Len(notes) : notes[i].ticket_id = t}
    IN  IF res # "ok" THEN Rejected
        ELSE /\ mine # {} \/ Len(notes) < Cardinality(NoteIds)
             /\ notes' = IF mine # {}
                          THEN [i \in 1..Len(notes) |->
                                  IF i \in mine
                                  THEN [ticket_id |-> t, user_id |-> u]
                                  ELSE notes[i]]
                          ELSE Append(notes, [ticket_id |-> t, user_id |-> u])
             /\ UNCHANGED <<users, loggedIn, activeGate, products, now,
                            tickets, feedback, log, reqs, commits>>

add_note(u, t) ==
    LET res == AddNoteResult(u, t) IN
    IF res # "ok" THEN Rejected
    ELSE /\ Len(notes) < Cardinality(NoteIds)
         /\ notes' = Append(notes, [ticket_id |-> t, user_id |-> u])
         /\ UNCHANGED <<users, loggedIn, activeGate, products, now, tickets,
                        feedback, log, reqs, commits>>

----------------------------------------------------------------------------
\* customer.pay_ticket
\* a variant without the status check
PayTicketResultNoStatusCheck(u, t) ==
    IF customer_required(u) # "ok" THEN customer_required(u)
    ELSE IF ~TicketExists(t) THEN "NotFound"
    ELSE IF tickets[t].customer_id # u THEN "Forbidden"
    ELSE IF tickets[t].is_warranty_covered THEN "NotApplicable"
    ELSE IF tickets[t].is_paid THEN "AlreadyPaid"
    ELSE "ok"

\* a variant without the warranty check
PayTicketResultNoWarrantyCheck(u, t) ==
    IF customer_required(u) # "ok" THEN customer_required(u)
    ELSE IF ~TicketExists(t) THEN "NotFound"
    ELSE IF tickets[t].customer_id # u THEN "Forbidden"
    ELSE IF tickets[t].status \notin {"completed", "closed"} THEN "InvalidState"
    ELSE IF tickets[t].is_paid THEN "AlreadyPaid"
    ELSE "ok"

PayTicketResult(u, t) ==
    IF customer_required(u) # "ok" THEN customer_required(u)
    ELSE IF ~TicketExists(t) THEN "NotFound"
    ELSE IF tickets[t].customer_id # u THEN "Forbidden"
    ELSE IF tickets[t].status \notin {"completed", "closed"} THEN "InvalidState"
    ELSE IF tickets[t].is_warranty_covered THEN "NotApplicable"
    ELSE IF tickets[t].is_paid THEN "AlreadyPaid"
    ELSE "ok"

\* a variant that records the payment and leaves the status
PaidKeepsStatus(tk) == [tk EXCEPT !.is_paid = TRUE]

\* the writes of the mock payment to the loaded ticket
Paid(tk) == [tk EXCEPT !.is_paid = TRUE, !.status = "closed"]

pay_ticket(u, t) ==
    LET res == PayTicketResult(u, t) IN
    IF res # "ok" THEN Rejected
    ELSE /\ Len(log) < MaxLog
         /\ tickets' = [tickets EXCEPT ![t] = Paid(tickets[t])]
         /\ log' = Append(log, Activity(u, "payment_processed", "ticket", t))
         /\ UNCHANGED <<users, loggedIn, activeGate, products, now, notes,
                        feedback, reqs, commits>>

----------------------------------------------------------------------------
\* customer.add_feedback
HasFeedback(t) == \E i \in 1..Len(feedback) : feedback[i].ticket_id = t

\* a variant without the status check
AddFeedbackResultNoStatusCheck(u, t) ==
    IF customer_required(u) # "ok" THEN customer_required(u)
    ELSE IF ~TicketExists(t) THEN "NotFound"
    ELSE IF tickets[t].customer_id # u THEN "Forbidden"
    ELSE IF HasFeedback(t) THEN "AlreadyExists"
    ELSE "ok"

AddFeedbackResult(u, t) ==
    IF customer_required(u) # "ok" THEN customer_required(u)
    ELSE IF ~TicketExists(t) THEN "NotFound"
    ELSE IF tickets[t].customer_id # u THEN "Forbidden"
    ELSE IF tickets[t].status \notin {"completed", "closed"} THEN "InvalidState"
    ELSE IF HasFeedback(t) THEN "AlreadyExists"
    ELSE "ok"

add_feedback(u, t, rating) ==
    LET res == AddFeedbackResult(u, t) IN
    IF res # "ok" THEN Rejected
    ELSE /\ feedback' = Append(feedback, [ticket_id |-> t, user_id |-> u,
                                          rating |-> rating])
         /\ UNCHANGED <<users, loggedIn, activeGate, products, now, tickets,
                        notes, log, reqs, commits>>

----------------------------------------------------------------------------
\* customer.add_feedback served by a worker next to other requests: the
\* checks and the existence pre-check on what the request reads, then, as a
\* later step, the INSERT and session.commit()
\* a variant of the table without the unique index
FeedbackUniqueNotEnforced(t) == FALSE

\* feedback.ticket_id is UNIQUE: the INSERT of a second row for a ticket
\* raises IntegrityError
FeedbackUniqueViolated(t) == HasFeedback(t)

LoadAddFeedbackResult(u, t) ==
    IF AddFeedbackResult(u, t) = "ok" THEN "pending" ELSE AddFeedbackResult(u, t)

LoadAddFeedback(w, u, t) ==
    /\ reqs[w].pc = "idle"
    /\ IF AddFeedbackResult(u, t) # "ok" THEN Rejected
       ELSE /\ reqs' = [reqs EXCEPT ![w] =
                          [pc |-> "feedback", user |-> u, ticket |-> t]]
            /\ UNCHANGED <<users, loggedIn, activeGate, products, now,
                           tickets, notes, feedback, log, commits>>

CommitAddFeedbackResult(w) ==
    IF FeedbackUniqueViolated(reqs[w].ticket) THEN "Conflict" ELSE "ok"

CommitAddFeedback(w, rating) ==
    /\ reqs[w].pc = "feedback"
    /\ reqs' = [reqs EXCEPT ![w] = IdleReq]
    /\ feedback' = IF CommitAddFeedbackResult(w) = "ok"
                   THEN Append(feedback, [ticket_id |-> reqs[w].ticket,
                                          user_id |-> reqs[w].user,
                                          rating |-> rating])
                   ELSE feedback
    /\ UNCHANGED <<users, loggedIn, activeGate, products, now, tickets,
                   notes, log, commits>>

----------------------------------------------------------------------------
\* customer.edit_product and customer.delete_product
SerialTaken(p, serial) ==
    \E q \in 1..Len(products) : q # p /\ products[q].serial_number = serial

EditProductResult(u, p, serial) ==
    IF customer_required(u) # "ok" THEN customer_required(u)
    ELSE IF ~ProductExists(p) THEN "NotFound"
    ELSE IF products[p].user_id # u THEN "Forbidden"
    ELSE IF products[p].serial_number # serial /\ SerialTaken(p, serial)
         THEN "Conflict"
    ELSE "ok"

\* a variant that keeps the stored expiry
EditedKeepingExpiry(pr, serial, purchase, months) ==
    [pr EXCEPT !.serial_number = serial, !.purchase_date = purchase,
               !.warranty_months = months]

Edited(pr, serial, purchase, months) ==
    [pr EXCEPT !.serial_number = serial, !.purchase_date = purchase,
               !.warranty_months = months,
               !.warranty_expiry = purchase + DaysPerMonth * months]

edit_product(u, p, serial, purchase, months) ==
    LET res == EditProductResult(u, p, serial) IN
    IF res # "ok" THEN Rejected
    ELSE /\ products' = [products EXCEPT
                           ![p] = Edited(products[p], serial, purchase, months)]
         /\ UNCHANGED <<users, loggedIn, activeGate, now, tickets, notes,
                        feedback, log, reqs, commits>>

DeleteProductResult(u, p) ==
    IF customer_required(u) # "ok" THEN customer_required(u)
    ELSE IF ~ProductExists(p) THEN "NotFound"
    ELSE IF products[p].user_id # u THEN "Forbidden"
    ELSE "ok"

delete_product(u, p) ==
    LET res == DeleteProductResult(u, p) IN
    IF res # "ok" THEN Rejected
    ELSE /\ products' = [products EXCEPT ![p].is_deleted = TRUE]
         /\ UNCHANGED <<users, loggedIn, activeGate, now, tickets, notes,
                        feedback, log, reqs, commits>>

----------------------------------------------------------------------------
\* technician.update_status served by a worker next to other requests: the
\* SELECT of Ticket.query.get_or_404 and the two checks on the loaded row,
\* then, as a later step, the try block and session.commit()
LoadUpdateStatus(w, u, t) ==
    /\ reqs[w].pc = "idle"
    /\ IF UpdateStatusAccess(u, t) # "ok" THEN Rejected
       ELSE /\ reqs' = [reqs EXCEPT ![w] =
                          [pc |-> "loaded", user |-> u, ticket |-> t,
                           loaded |-> tickets[t], seen |-> Len(commits)]]
            /\ UNCHANGED <<users, loggedIn, activeGate, products, now,
                           tickets, notes, feedback, log, commits>>

CommitUpdateStatus(w, status, cost) ==
    /\ reqs[w].pc = "loaded"
    /\ LET r == reqs[w]
           body == UpdateStatusBody(r.loaded, status, cost)
       IN  IF body.result # "ok"
           THEN /\ reqs' = [reqs EXCEPT ![w] = IdleReq]
                /\ UNCHANGED <<users, loggedIn, activeGate, products, now,
                               tickets, notes, feedback, log, commits>>
           ELSE /\ Len(log) < MaxLog
                /\ tickets' = [tickets EXCEPT ![r.ticket] =
                                  Flush(tickets[r.ticket], r.loaded, body.ticket)]
                /\ log' = Append(log, Activity(r.user, "ticket_status_updated",
                                               "ticket", r.ticket))
                /\ commits' = Append(commits,
                                     [worker |-> w, ticket |-> r.ticket,
                                      read |-> r.loaded.status,
                                      status |-> status, seen |-> r.seen])
                /\ reqs' = [reqs EXCEPT ![w] = IdleReq]
                /\ UNCHANGED <<users, loggedIn, activeGate, products, now,
                               notes, feedback>>

----------------------------------------------------------------------------
\* auth.register, auth.login, auth.logout
\* the accounts of SpecAccounts: the default admin and one registration
AccountIds == {1, 2}

register(role) ==
    /\ Len(users) < Cardinality(AccountIds)
    /\ users' = Append(users, NewUser(role))
    /\ UNCHANGED <<loggedIn, activeGate, products, now, tickets, notes,
                   feedback, log, reqs, commits>>

LoginResult(u) ==
    IF is_authenticated(u) THEN "AlreadyLoggedIn"
    ELSE IF ~UserExists(u) THEN "InvalidCredentials"
    ELSE IF ~users[u].is_active \/ users[u].is_deleted THEN "Inactive"
    ELSE "ok"

login(u) ==
    IF LoginResult(u) # "ok" THEN Rejected
    ELSE /\ loggedIn' = loggedIn \cup {u}
         /\ UNCHANGED <<users, activeGate, products, now, tickets, notes,
                        feedback, log, reqs, commits>>

LogoutResult(u) == IF ~is_authenticated(u) THEN "Unauthenticated" ELSE "ok"

logout(u) ==
    IF LogoutResult(u) # "ok" THEN Rejected
    ELSE /\ loggedIn' = loggedIn \ {u}
         /\ UNCHANGED <<users, activeGate, products, now, tickets, notes,
                        feedback, log, reqs, commits>>

----------------------------------------------------------------------------
\* admin.deactivate_user, admin.activate_user
\* a variant without the test of the target against the caller
DeactivateUserResultNoSelfCheck(a, target) ==
    IF admin_required(a) # "ok" THEN admin_required(a)
    ELSE IF ~UserExists(target) THEN "NotFound"
    ELSE "ok"

DeactivateUserResult(a, target) ==
    IF admin_required(a) # "ok" THEN admin_required(a)
    ELSE IF target = a THEN "Forbidden"
    ELSE IF ~UserExists(target) THEN "NotFound"
    ELSE "ok"

deactivate_user(a, target) ==
    IF DeactivateUserResult(a, target) # "ok" THEN Rejected
    ELSE /\ Len(log) < MaxLog
         /\ users' = [users EXCEPT ![target].is_active = FALSE]
         /\ log' = Append(log, Activity(a, "user_deactivated", "user", target))
         /\ UNCHANGED <<loggedIn, activeGate, products, now, tickets, notes,
                        feedback, reqs, commits>>

ActivateUserResult(a, target) ==
    IF admin_required(a) # "ok" THEN admin_required(a)
    ELSE IF ~UserExists(target) THEN "NotFound"
    ELSE "ok"

activate_user(a, target) ==
    IF ActivateUserResult(a, target) # "ok" THEN Rejected
    ELSE /\ Len(log) < MaxLog
         /\ users' = [users EXCEPT ![target].is_active = TRUE]
         /\ log' = Append(log, Activity(a, "user_activated", "user", target))
         /\ UNCHANGED <<loggedIn, activeGate, products, now, tickets, notes,
                        feedback, reqs, commits>>

----------------------------------------------------------------------------
\* customer.add_product; the UNIQUE index on products.serial_number refuses
\* the INSERT of a serial number a stored row has
AddProductResult(u, serial) ==
    IF customer_required(u) # "ok" THEN customer_required(u)
    ELSE IF SerialTaken(0, serial) THEN "Conflict"
    ELSE "ok"

add_product(u, serial, purchase, months) ==
    IF AddProductResult(u, serial) # "ok" THEN Rejected
    ELSE /\ Len(products) < Cardinality(ProductIds)
         /\ products' = Append(products, NewProduct(u, serial, purchase, months))
         /\ UNCHANGED <<users, loggedIn, activeGate, now, tickets, notes,
                        feedback, log, reqs, commits>>

----------------------------------------------------------------------------
\* customer.add_product and customer.edit_product served by a worker next to
\* other requests: the checks of the request first, then, as a later step,
\* the INSERT or UPDATE and session.commit()
\* a variant of the table without the unique index
SerialUniqueNotEnforced(p, serial) == FALSE

\* products.serial_number is UNIQUE: writing a serial number another row
\* (soft-deleted or not) holds raises IntegrityError
SerialUniqueViolated(p, serial) == SerialTaken(p, serial)

LoadAddProductResult(u) ==
    IF customer_required(u) # "ok" THEN customer_required(u) ELSE "pending"

LoadAddProduct(w, u, serial) ==
    /\ reqs[w].pc = "idle"
    /\ IF customer_required(u) # "ok" THEN Rejected
       ELSE /\ reqs' = [reqs EXCEPT ![w] =
                          [pc |-> "add_product", user |-> u, serial |-> serial]]
            /\ UNCHANGED <<users, loggedIn, activeGate, products, now,
                           tickets, notes, feedback, log, commits>>

CommitAddProductResult(w) ==
    IF SerialUniqueViolated(0, reqs[w].serial) THEN "Conflict" ELSE "ok"

CommitAddProduct(w, purchase, months) ==
    /\ reqs[w].pc = "add_product"
    /\ CommitAddProductResult(w) = "ok" => Len(products) < Cardinality(CatalogIds)
    /\ reqs' = [reqs EXCEPT ![w] = IdleReq]
    /\ products' = IF CommitAddProductResult(w) = "ok"
                   THEN Append(products, NewProduct(reqs[w].user, reqs[w].serial,
                                                    purchase, months))
                   ELSE products
    /\ UNCHANGED <<users, loggedIn, activeGate, now, tickets, notes,
                   feedback, log, commits>>

LoadEditProductResult(u, p, serial) ==
    IF EditProductResult(u, p, serial) = "ok" THEN "pending"
    ELSE EditProductResult(u, p, serial)

LoadEditProduct(w, u, p, serial) ==
    /\ reqs[w].pc = "idle"
    /\ IF EditProductResult(u, p, serial) # "ok" THEN Rejected
       ELSE /\ reqs' = [reqs EXCEPT ![w] =
                          [pc |-> "edit_product", user |-> u, product |-> p,
                           serial |-> serial,
                           loaded |-> products[p].serial_number]]
            /\ UNCHANGED <<users, loggedIn, activeGate, products, now,
                           tickets, notes, feedback, log, commits>>

\* the UPDATE carries serial_number only when the form changed it
WrittenSerial(w) ==
    IF reqs[w].serial # reqs[w].loaded THEN reqs[w].serial
    ELSE products[reqs[w].product].serial_number

CommitEditProductResult(w) ==
    IF SerialUniqueViolated(reqs[w].product, WrittenSerial(w))
    THEN "Conflict" ELSE "ok"

CommitEditProduct(w, purchase, months) ==
    /\ reqs[w].pc = "edit_product"
    /\ reqs' = [reqs EXCEPT ![w] = IdleReq]
    /\ products' = IF CommitEditProductResult(w) = "ok"
                   THEN [products EXCEPT ![reqs[w].product] =
                            Edited(@, WrittenSerial(w), purchase, months)]
                   ELSE products
    /\ UNCHANGED <<users, loggedIn, activeGate, now, tickets, notes,
                   feedback, log, commits>>

----------------------------------------------------------------------------
\* admin.edit_user: the role is committed first, the user_updated entry in
\* a second commit
\* a variant that lets every signed-in account through
EditUserResultNoAdminCheck(a, target) ==
    IF ~is_authenticated(a) THEN "Unauthenticated"
    ELSE IF ~UserExists(target) THEN "NotFound"
    ELSE IF users[target].is_deleted THEN "NotFound"
    ELSE "ok"

EditUserResult(a, target) ==
    IF admin_required(a) # "ok" THEN admin_required(a)
    ELSE IF ~UserExists(target) THEN "NotFound"
    ELSE IF users[target].is_deleted THEN "NotFound"
    ELSE "ok"

edit_user(a, target, role) ==
    IF EditUserResult(a, target) # "ok" THEN Rejected
    ELSE /\ Len(log) < MaxLog
         /\ users' = [users EXCEPT ![target].role = role]
         /\ log' = Append(log, Activity(a, "user_updated", "user", target))
         /\ UNCHANGED <<loggedIn, activeGate, products, now, tickets, notes,
                        feedback, reqs, commits>>

\* the first session.commit() raises: rollback, nothing is stored
edit_user_commit_fails(a, target, role) ==
    /\ EditUserResult(a, target) = "ok"
    /\ Rejected

\* the second session.commit() raises: the rollback drops the pending
\* ActivityLog row, the role of the first commit stays
edit_user_log_commit_fails(a, target, role) ==
    /\ EditUserResult(a, target) = "ok"
    /\ users' = [users EXCEPT ![target].role = role]
    /\ UNCHANGED <<loggedIn, activeGate, products, now, tickets, notes,
                   feedback, log, reqs, commits>>

----------------------------------------------------------------------------
\* technician.tickets: the listing of the caller's assigned tickets
ListingIds == {1, 2, 3}      \* tickets.id values of a three-row listing
Priorities == {"low", "medium", "high", "urgent"}

\* the text of a priority as the String(20) column stores it, in code points
PriorityText(priority) ==
    CASE priority = "low" -> <<108, 111, 119>>
      [] priority = "medium" -> <<109, 101, 100, 105, 117, 109>>
      [] priority = "high" -> <<104, 105, 103, 104>>
      [] priority = "urgent" -> <<117, 114, 103, 101, 110, 116>>

\* the comparison of two column values by the database: text, left to right
RECURSIVE TextLess(_, _)
TextLess(a, b) ==
    IF b = <<>> THEN FALSE
    ELSE IF a = <<>> THEN TRUE
    ELSE IF Head(a) # Head(b) THEN Head(a) < Head(b)
    ELSE TextLess(Tail(a), Tail(b))

\* a row of tickets with the two columns the listing sorts by
ListedTicket(technician, priority, created) ==
    [customer_id |-> 3, product_id |-> 1, technician_id |-> technician,
     status |-> IF technician = 0 THEN "open" ELSE "in_progress",
     repair_cost |-> <<>>, is_warranty_covered |-> TRUE, is_paid |-> FALSE,
     is_deleted |-> FALSE, priority |-> priority, created_at |-> created]

\* order_by(Ticket.priority.desc(), Ticket.created_at.asc())
OrderedBefore(a, b) ==
    \/ TextLess(PriorityText(tickets[b].priority),
                PriorityText(tickets[a].priority))
    \/ /\ tickets[a].priority = tickets[b].priority
       /\ tickets[a].created_at < tickets[b].created_at

RECURSIVE Ordered(_)
Ordered(S) ==
    IF S = {} THEN <<>>
    ELSE LET first == CHOOSE a \in S : \A b \in S \ {a} : OrderedBefore(a, b)
         IN  <<first>> \o Ordered(S \ {first})

AssignedTickets(u) ==
    {t \in 1..Len(tickets) :
        tickets[t].technician_id = u /\ ~tickets[t].is_deleted}

TicketsResult(u) ==
    IF technician_required(u) # "ok" THEN technician_required(u)
    ELSE Ordered(AssignedTickets(u))

\* the request only reads
tickets_page(u) == Rejected

\* three stored tickets, created in the order of their ids, each assigned to
\* the technician or to nobody
InitListing ==
    /\ users = <<NewUser("admin"), NewUser("technician"), NewUser("customer")>>
    /\ loggedIn = {1, 2, 3}
    /\ activeGate = TRUE
    /\ products = <<NewProduct(3, "SN1", 0, 1)>>
    /\ now = 0
    /\ \E tech \in [ListingIds -> {0, 2}], prio \in [ListingIds -> Priorities] :
           tickets = [t \in 1..Cardinality(ListingIds) |->
                        ListedTicket(tech[t], prio[t], t)]
    /\ notes = <<>>
    /\ feedback = <<>>
    /\ log = <<>>
    /\ reqs = [w \in Workers |-> IdleReq]
    /\ commits = <<>>
    /\ last = Outcome("login", 3, 0, "ok")

----------------------------------------------------------------------------
\* customer.raise_ticket with the ticket number it generates
NumberedIds == {1, 2}        \* tickets.id values of a two-row table
Suffixes == {"A1B2C3", "D4E5F6"}    \* values of uuid.uuid4().hex[:6].upper()

\* Ticket.generate_ticket_number: prefix, the day of creation, the suffix
generate_ticket_number(day, suffix) == <<"TKT", day, suffix>>

\* a variant of the table without the unique index
TicketNumberUniqueNotEnforced(number) == FALSE

\* tickets.ticket_number is UNIQUE: the INSERT of a second row with the
\* number raises IntegrityError
TicketNumberUniqueViolated(number) ==
    \E t \in 1..Len(tickets) : tickets[t].ticket_number = number

RaiseNumberedTicketResult(u, p, repair_type, suffix) ==
    IF RaiseTicketResult(u, p, repair_type) # "ok"
    THEN RaiseTicketResult(u, p, repair_type)
    ELSE IF TicketNumberUniqueViolated(generate_ticket_number(now, suffix))
         THEN "Conflict"
    ELSE "ok"

raise_numbered_ticket(u, p, repair_type, suffix) ==
    IF RaiseNumberedTicketResult(u, p, repair_type, suffix) # "ok" THEN Rejected
    ELSE /\ Len(tickets) < Cardinality(NumberedIds)
         /\ tickets' = Append(tickets,
                [ticket_number |-> generate_ticket_number(now, suffix)]
                  @@ NewTicket(u, p, CoveredAtCreation(p, repair_type)))
         /\ UNCHANGED <<users, loggedIn, activeGate, products, now, notes,
                        feedback, log, reqs, commits>>

----------------------------------------------------------------------------
\* the POST of ProductForm to customer.add_product and customer.edit_product
MonthsFormInputs == {0, 1, 2, 120, 121}
PurchaseFormInputs == {0, 30}

\* form.validate_on_submit(): warranty_months within NumberRange
validate_on_submit(months) ==
    months >= MinWarrantyMonths /\ months <= MaxWarrantyMonths

PostAddProductResult(u, serial, months) ==
    IF customer_required(u) # "ok" THEN customer_required(u)
    ELSE IF ~validate_on_submit(months) THEN "ValidationError"
    ELSE AddProductResult(u, serial)

post_add_product(u, serial, purchase, months) ==
    IF PostAddProductResult(u, serial, months) # "ok" THEN Rejected
    ELSE add_product(u, serial, purchase, months)

PostEditProductResult(u, p, serial, months) ==
    IF customer_required(u) # "ok" THEN customer_required(u)
    ELSE IF ~ProductExists(p) THEN "NotFound"
    ELSE IF products[p].user_id # u THEN "Forbidden"
    ELSE IF ~validate_on_submit(months) THEN "ValidationError"
    ELSE EditProductResult(u, p, serial)

post_edit_product(u, p, serial, purchase, months) ==
    IF PostEditProductResult(u, p, serial, months) # "ok" THEN Rejected
    ELSE edit_product(u, p, serial, purchase, months)

----------------------------------------------------------------------------
\* customer.pay_ticket served by a worker next to other requests: the SELECT
\* of Ticket.query.get_or_404 and the checks on the loaded row, then, as a
\* later step, the try block and session.commit(); no row is locked and no
\* version column is compared
LoadPayTicket(w, u, t) ==
    /\ reqs[w].pc = "idle"
    /\ IF PayTicketResult(u, t) # "ok" THEN Rejected
       ELSE /\ reqs' = [reqs EXCEPT ![w] =
                          [pc |-> "pay_ticket", user |-> u, ticket |-> t,
                           loaded |-> tickets[t]]]
            /\ UNCHANGED <<users, loggedIn, activeGate, products, now,
                           tickets, notes, feedback, log, commits>>

CommitPayTicket(w) ==
    /\ reqs[w].pc = "pay_ticket"
    /\ Len(log) < MaxLog
    /\ LET r == reqs[w] IN
       /\ tickets' = [tickets EXCEPT ![r.ticket] =
                         Flush(tickets[r.ticket], r.loaded, Paid(r.loaded))]
       /\ log' = Append(log, Activity(r.user, "payment_processed", "ticket",
                                      r.ticket))
    /\ reqs' = [reqs EXCEPT ![w] = IdleReq]
    /\ UNCHANGED <<users, loggedIn, activeGate, products, now, notes,
                   feedback, commits>>

----------------------------------------------------------------------------
\* session.commit() raising in a handler whose checks passed: the except
\* branch calls session.rollback(), so nothing of the request is stored
\* a variant in which the ticket row was committed before the log row failed
update_status_ticket_committed_first(u, t, status, cost) ==
    /\ UpdateStatusAccess(u, t) = "ok"
    /\ UpdateStatusBody(tickets[t], status, cost).result = "ok"
    /\ tickets' = [tickets EXCEPT
                      ![t] = UpdateStatusBody(tickets[t], status, cost).ticket]
    /\ UNCHANGED <<users, loggedIn, activeGate, products, now, notes,
                   feedback, log, reqs, commits>>

update_status_commit_fails(u, t, status, cost) ==
    /\ UpdateStatusAccess(u, t) = "ok"
    /\ UpdateStatusBody(tickets[t], status, cost).result = "ok"
    /\ Rejected

assign_technician_commit_fails(a, t, tech) ==
    /\ AssignTechnicianResult(a, t, tech) = "ok"
    /\ Rejected

pay_ticket_commit_fails(u, t) ==
    /\ PayTicketResult(u, t) = "ok"
    /\ Rejected

(***************************************************************************)
(* Recording of requests.                                                  *)
(***************************************************************************)
Observed(A, op, u, target, result) ==
    A /\ last' = Outcome(op, u, target, result)

Silent(A) == A /\ UNCHANGED last

(***************************************************************************)
(* Spec: the ticket lifecycle, one request at a time, every request        *)
(* recorded in `last`.                                                     *)
(***************************************************************************)
Init == InitProvisioned

UpdateStatusResult(u, t, status, cost) ==
    IF UpdateStatusAccess(u, t) # "ok" THEN UpdateStatusAccess(u, t)
    ELSE UpdateStatusBody(tickets[t], status, cost).result

Next ==
    \/ Observed(Tick, "tick", 0, 0, "ok")
    \/ \E u \in UserIds, p \in ProductIds, rt \in RepairTypes :
           Observed(raise_ticket(u, p, rt), "raise_ticket", u, p,
                    RaiseTicketResult(u, p, rt))
    \/ \E a \in UserIds, t \in TicketIds, tech \in UserIds :
           Observed(assign_technician(a, t, tech), "assign_technician", a, t,
                    AssignTechnicianResult(a, t, tech))
    \/ \E u \in UserIds, t \in TicketIds, s \in Statuses, c \in CostInputs :
           Observed(update_status(u, t, s, c), "update_status", u, t,
                    UpdateStatusResult(u, t, s, c))
    \/ \E u \in UserIds, t \in TicketIds :
           Observed(pay_ticket(u, t), "pay_ticket", u, t, PayTicketResult(u, t))

Spec == Init /\ [][Next]_vars

(***************************************************************************)
(* SpecAll: every handler that writes ticket, product, note or feedback    *)
(* rows, one request at a time, requests not recorded.                     *)
(***************************************************************************)
NextAll ==
    \/ Silent(Tick)
    \/ \E u \in UserIds, p \in ProductIds, rt \in RepairTypes :
           Silent(raise_ticket(u, p, rt))
    \/ \E a \in UserIds, t \in TicketIds, tech \in UserIds :
           Silent(assign_technician(a, t, tech))
    \/ \E u \in UserIds, t \in TicketIds, s \in Statuses, c \in CostInputs :
           Silent(update_status(u, t, s, c))
    \/ \E u \in UserIds, t \in TicketIds : Silent(add_note(u, t))
    \/ \E u \in UserIds, t \in TicketIds : Silent(pay_ticket(u, t))
    \/ \E u \in UserIds, t \in TicketIds, r \in Ratings :
           Silent(add_feedback(u, t, r))
    \/ \E u \in UserIds, p \in ProductIds, sn \in SerialInputs,
          d \in PurchaseDates, m \in WarrantyMonthsInputs :
           Silent(edit_product(u, p, sn, d, m))
    \/ \E u \in UserIds, p \in ProductIds : Silent(delete_product(u, p))

SpecAll == Init /\ [][NextAll]_vars

(***************************************************************************)
(* SpecConc: update_status requests on two workers, interleaved at the     *)
(* steps of LoadUpdateStatus and CommitUpdateStatus.                       *)
(***************************************************************************)
NextConc ==
    \/ \E u \in UserIds, p \in ProductIds, rt \in RepairTypes :
           Silent(raise_ticket(u, p, rt))
    \/ \E w \in Workers, u \in UserIds, t \in TicketIds :
           Silent(LoadUpdateStatus(w, u, t))
    \/ \E w \in Workers, s \in Statuses, c \in CostInputs :
           Silent(CommitUpdateStatus(w, s, c))

SpecConc == Init /\ [][NextConc]_vars

(***************************************************************************)
(* SpecAccounts: accounts and sessions from the state create_app() leaves, *)
(* with the customer's product handlers, every request recorded.           *)
(***************************************************************************)
RegistrationRoles == {"customer", "technician"}

NextAccounts ==
    \/ \E r \in RegistrationRoles :
           Observed(register(r), "register", 0, Len(users) + 1, "ok")
    \/ \E u \in AccountIds : Observed(login(u), "login", u, u, LoginResult(u))
    \/ \E u \in AccountIds : Observed(logout(u), "logout", u, u, LogoutResult(u))
    \/ \E a \in AccountIds, x \in AccountIds :
           Observed(deactivate_user(a, x), "deactivate_user", a, x,
                    DeactivateUserResult(a, x))
    \/ \E a \in AccountIds, x \in AccountIds :
           Observed(activate_user(a, x), "activate_user", a, x,
                    ActivateUserResult(a, x))
    \/ \E u \in AccountIds, sn \in SerialInputs, d \in PurchaseDates,
          m \in WarrantyMonthsInputs :
           Observed(add_product(u, sn, d, m), "add_product", u,
                    Len(products) + 1, AddProductResult(u, sn))
    \/ \E u \in AccountIds, p \in ProductIds :
           Observed(delete_product(u, p), "delete_product", u, p,
                    DeleteProductResult(u, p))

SpecAccounts == InitConstructed /\ [][NextAccounts]_vars

(***************************************************************************)
(* SpecFeedback: add_feedback requests on two workers, interleaved at the  *)
(* steps of LoadAddFeedback and CommitAddFeedback, each step recorded.     *)
(***************************************************************************)
NextFeedback ==
    \/ \E u \in UserIds, p \in ProductIds, rt \in RepairTypes :
           Silent(raise_ticket(u, p, rt))
    \/ \E u \in UserIds, t \in TicketIds, s \in Statuses, c \in CostInputs :
           Silent(update_status(u, t, s, c))
    \/ \E w \in Workers, u \in UserIds, t \in TicketIds :
           Observed(LoadAddFeedback(w, u, t), "add_feedback", u, t,
                    LoadAddFeedbackResult(u, t))
    \/ \E w \in Workers, r \in Ratings :
           Observed(CommitAddFeedback(w, r), "add_feedback", reqs[w].user,
                    reqs[w].ticket, CommitAddFeedbackResult(w))

SpecFeedback == Init /\ [][NextFeedback]_vars

(***************************************************************************)
(* SpecReview: add_feedback one request at a time and recorded, on tickets *)
(* that raise_ticket, assign_technician and update_status move around.     *)
(***************************************************************************)
NextReview ==
    \/ \E u \in UserIds, p \in ProductIds, rt \in RepairTypes :
           Silent(raise_ticket(u, p, rt))
    \/ \E a \in UserIds, t \in TicketIds, tech \in UserIds :
           Silent(assign_technician(a, t, tech))
    \/ \E u \in UserIds, t \in TicketIds, s \in Statuses, c \in CostInputs :
           Silent(update_status(u, t, s, c))
    \/ \E u \in UserIds, t \in TicketIds, r \in Ratings :
           Observed(add_feedback(u, t, r), "add_feedback", u, t,
                    AddFeedbackResult(u, t))

SpecReview == Init /\ [][NextReview]_vars

(***************************************************************************)
(* SpecCreate: raise_ticket recorded, by two customers, on a product that  *)
(* add_product and delete_product create and soft-delete while the clock   *)
(* passes its warranty expiry.                                             *)
(***************************************************************************)
NextCreate ==
    \/ Silent(Tick)
    \/ \E u \in UserIds, sn \in SerialInputs, d \in PurchaseDates,
          m \in WarrantyMonthsInputs :
           Silent(add_product(u, sn, d, m))
    \/ \E u \in UserIds, p \in ProductIds : Silent(delete_product(u, p))
    \/ \E u \in UserIds, p \in ProductIds, rt \in RepairTypes :
           Observed(raise_ticket(u, p, rt), "raise_ticket", u, p,
                    RaiseTicketResult(u, p, rt))

SpecCreate == InitCustomers /\ [][NextCreate]_vars

(***************************************************************************)
(* SpecAssign: assign_technician while the admin deactivates and           *)
(* reactivates accounts, every request recorded.                           *)
(***************************************************************************)
NextAssign ==
    \/ \E u \in UserIds, p \in ProductIds, rt \in RepairTypes :
           Observed(raise_ticket(u, p, rt), "raise_ticket", u, p,
                    RaiseTicketResult(u, p, rt))
    \/ \E a \in UserIds, x \in UserIds :
           Observed(deactivate_user(a, x), "deactivate_user", a, x,
                    DeactivateUserResult(a, x))
    \/ \E a \in UserIds, x \in UserIds :
           Observed(activate_user(a, x), "activate_user", a, x,
                    ActivateUserResult(a, x))
    \/ \E a \in UserIds, t \in TicketIds, tech \in UserIds :
           Observed(assign_technician(a, t, tech), "assign_technician", a, t,
                    AssignTechnicianResult(a, t, tech))

SpecAssign == Init /\ [][NextAssign]_vars

(***************************************************************************)
(* SpecTech: the technician's handlers update_status and add_note, with    *)
(* raise_ticket and assign_technician, every request recorded.             *)
(***************************************************************************)
NextTech ==
    \/ \E u \in UserIds, p \in ProductIds, rt \in RepairTypes :
           Observed(raise_ticket(u, p, rt), "raise_ticket", u, p,
                    RaiseTicketResult(u, p, rt))
    \/ \E a \in UserIds, t \in TicketIds, tech \in UserIds :
           Observed(assign_technician(a, t, tech), "assign_technician", a, t,
                    AssignTechnicianResult(a, t, tech))
    \/ \E u \in UserIds, t \in TicketIds, s \in Statuses, c \in CostInputs :
           Observed(update_status(u, t, s, c), "update_status", u, t,
                    UpdateStatusResult(u, t, s, c))
    \/ \E u \in UserIds, t \in TicketIds :
           Observed(add_note(u, t), "add_note", u, t, AddNoteResult(u, t))

SpecTech == Init /\ [][NextTech]_vars

(***************************************************************************)
(* SpecAudit: the three handlers that write a ticket and its activity log  *)
(* entry, each either committing or failing at session.commit(), every     *)
(* request recorded.                                                       *)
(***************************************************************************)
NextAudit ==
    \/ \E u \in UserIds, p \in ProductIds, rt \in RepairTypes :
           Silent(raise_ticket(u, p, rt))
    \/ \E a \in UserIds, t \in TicketIds, tech \in UserIds :
           Observed(assign_technician(a, t, tech), "assign_technician", a, t,
                    AssignTechnicianResult(a, t, tech))
    \/ \E a \in UserIds, t \in TicketIds, tech \in UserIds :
           Observed(assign_technician_commit_fails(a, t, tech),
                    "assign_technician", a, t, "StorageError")
    \/ \E u \in UserIds, t \in TicketIds, s \in Statuses, c \in CostInputs :
           Observed(update_status(u, t, s, c), "update_status", u, t,
                    UpdateStatusResult(u, t, s, c))
    \/ \E u \in UserIds, t \in TicketIds, s \in Statuses, c \in CostInputs :
           Observed(update_status_commit_fails(u, t, s, c), "update_status",
                    u, t, "StorageError")
    \/ \E u \in UserIds, t \in TicketIds :
           Observed(pay_ticket(u, t), "pay_ticket", u, t, PayTicketResult(u, t))
    \/ \E u \in UserIds, t \in TicketIds :
           Observed(pay_ticket_commit_fails(u, t), "pay_ticket", u, t,
                    "StorageError")

SpecAudit == Init /\ [][NextAudit]_vars

(***************************************************************************)
(* SpecSerial: two workers registering, editing and deleting products of   *)
(* a two-row catalog, every request recorded.                              *)
(***************************************************************************)
NextSerial ==
    \/ \E w \in Workers, u \in UserIds, sn \in CatalogSerials :
           Observed(LoadAddProduct(w, u, sn), "add_product", u,
                    Len(products) + 1, LoadAddProductResult(u))
    \/ \E w \in Workers, d \in PurchaseDates, m \in WarrantyMonthsInputs :
           Observed(CommitAddProduct(w, d, m), "add_product", reqs[w].user,
                    Len(products) + 1, CommitAddProductResult(w))
    \/ \E w \in Workers, u \in UserIds, p \in CatalogIds, sn \in CatalogSerials :
           Observed(LoadEditProduct(w, u, p, sn), "edit_product", u, p,
                    LoadEditProductResult(u, p, sn))
    \/ \E w \in Workers, d \in PurchaseDates, m \in WarrantyMonthsInputs :
           Observed(CommitEditProduct(w, d, m), "edit_product", reqs[w].user,
                    reqs[w].product, CommitEditProductResult(w))
    \/ \E u \in UserIds, p \in CatalogIds :
           Observed(delete_product(u, p), "delete_product", u, p,
                    DeleteProductResult(u, p))

SpecSerial == InitCustomers /\ [][NextSerial]_vars

(***************************************************************************)
(* SpecRoles: registration, login and the admin's user edit, whose two     *)
(* commits may each fail, every request recorded.                          *)
(***************************************************************************)
NextRoles ==
    \/ \E r \in RegistrationRoles :
           Observed(register(r), "register", 0, Len(users) + 1, "ok")
    \/ \E u \in AccountIds : Observed(login(u), "login", u, u, LoginResult(u))
    \/ \E a \in AccountIds, x \in AccountIds, r \in Roles :
           Observed(edit_user(a, x, r), "edit_user", a, x, EditUserResult(a, x))
    \/ \E a \in AccountIds, x \in AccountIds, r \in Roles :
           Observed(edit_user_commit_fails(a, x, r), "edit_user", a, x,
                    "StorageError")
    \/ \E a \in AccountIds, x \in AccountIds, r \in Roles :
           Observed(edit_user_log_commit_fails(a, x, r), "edit_user", a, x,
                    "StorageError")

SpecRoles == InitConstructed /\ [][NextRoles]_vars

(***************************************************************************)
(* SpecListing: the technician's ticket listing over three stored tickets  *)
(* of any priorities.                                                      *)
(***************************************************************************)
NextListing ==
    \E u \in UserIds :
        Observed(tickets_page(u), "tickets", u, 0, TicketsResult(u))

SpecListing == InitListing /\ [][NextListing]_vars

(***************************************************************************)
(* SpecNumbers: tickets raised with generated numbers while the clock      *)
(* moves, every request recorded.                                          *)
(***************************************************************************)
NextNumbers ==
    \/ Silent(Tick)
    \/ \E u \in UserIds, p \in ProductIds, rt \in RepairTypes, sfx \in Suffixes :
           Observed(raise_numbered_ticket(u, p, rt, sfx), "raise_ticket", u, p,
                    RaiseNumberedTicketResult(u, p, rt, sfx))

SpecNumbers == Init /\ [][NextNumbers]_vars

(***************************************************************************)
(* SpecProducts: customers posting the product form, with months inside    *)
(* and outside its range, to add_product and edit_product.                 *)
(***************************************************************************)
NextProducts ==
    \/ \E u \in UserIds, sn \in CatalogSerials, d \in PurchaseFormInputs,
          m \in MonthsFormInputs :
           Observed(post_add_product(u, sn, d, m), "add_product", u,
                    Len(products) + 1, PostAddProductResult(u, sn, m))
    \/ \E u \in UserIds, p \in ProductIds, sn \in CatalogSerials,
          d \in PurchaseFormInputs, m \in MonthsFormInputs :
           Observed(post_edit_product(u, p, sn, d, m), "edit_product", u, p,
                    PostEditProductResult(u, p, sn, m))

SpecProducts == InitCustomers /\ [][NextProducts]_vars

(***************************************************************************)
(* SpecPay: pay_ticket requests on two workers, interleaved at the steps   *)
(* of LoadPayTicket and CommitPayTicket.                                   *)
(***************************************************************************)
NextPay ==
    \/ \E u \in UserIds, p \in ProductIds, rt \in RepairTypes :
           Silent(raise_ticket(u, p, rt))
    \/ \E u \in UserIds, t \in TicketIds, s \in Statuses, c \in CostInputs :
           Silent(update_status(u, t, s, c))
    \/ \E w \in Workers, u \in UserIds, t \in TicketIds :
           Silent(LoadPayTicket(w, u, t))
    \/ \E w \in Workers : Silent(CommitPayTicket(w))

SpecPay == Init /\ [][NextPay]_vars

(***************************************************************************)
(* SpecOwnership: two customers with their products and tickets, and the   *)
(* staff handlers that write tickets.                                      *)
(***************************************************************************)
NextOwnership ==
    \/ \E u \in UserIds, sn \in SerialInputs, d \in PurchaseDates,
          m \in WarrantyMonthsInputs :
           Silent(add_product(u, sn, d, m))
    \/ \E u \in UserIds, p \in ProductIds, sn \in SerialInputs,
          d \in PurchaseDates, m \in WarrantyMonthsInputs :
           Silent(edit_product(u, p, sn, d, m))
    \/ \E u \in UserIds, p \in ProductIds : Silent(delete_product(u, p))
    \/ \E u \in UserIds, p \in ProductIds, rt \in RepairTypes :
           Observed(raise_ticket(u, p, rt), "raise_ticket", u, p,
                    RaiseTicketResult(u, p, rt))
    \/ \E u \in UserIds, t \in TicketIds, s \in Statuses, c \in CostInputs :
           Silent(update_status(u, t, s, c))
    \/ \E u \in UserIds, t \in TicketIds : Silent(pay_ticket(u, t))

SpecOwnership == InitCustomers /\ [][NextOwnership]_vars

(***************************************************************************)
(* Properties of the ticket lifecycle (Spec, SpecAll).                     *)
(***************************************************************************)
\* the edges of the lifecycle as the specification draws it
LifecycleEdges ==
    {<<"open", "in_progress">>, <<"in_progress", "waiting_for_parts">>,
     <<"waiting_for_parts", "in_progress">>, <<"in_progress", "completed">>,
     <<"completed", "closed">>, <<"open", "rejected">>,
     <<"in_progress", "rejected">>}

\* the caller of the recorded request is the ticket's assigned technician
\* or an admin, and passes the decorators
MayEditStatus(u, t) ==
    /\ technician_required(u) = "ok"
    /\ (tickets[t].technician_id = u \/ is_admin(u))

\* C1: every change of a ticket's status made by raise_ticket,
\* assign_technician, update_status or pay_ticket follows an edge of the
\* lifecycle.
C1_StatusChangesFollowLifecycle ==
    [][\A t \in TicketIds :
          (TicketExists(t) /\ tickets'[t].status # tickets[t].status)
              => <<tickets[t].status, tickets'[t].status>> \in LifecycleEdges]_vars

\* C2: a ticket that is not warranty-covered is closed only if it is paid.
C2_ClosedPaidRepairIsPaid ==
    \A t \in TicketIds :
        (TicketExists(t) /\ ~tickets[t].is_warranty_covered
                         /\ tickets[t].status = "closed")
            => tickets[t].is_paid

\* C3: update_status to completed, by a caller who may edit the ticket, on a
\* ticket that is not warranty-covered, with no repair cost in the form and
\* none stored, ends with MissingRepairCost and leaves the tickets and the
\* activity log as they were.
C3_CompletionNeedsRepairCost ==
    [][\A u \in UserIds, t \in TicketIds :
          ( /\ TicketExists(t)
            /\ UpdateStatusAccess(u, t) = "ok"
            /\ ~tickets[t].is_warranty_covered
            /\ tickets[t].repair_cost = <<>>
            /\ Observed(update_status(u, t, "completed", <<>>),
                        "update_status", u, t,
                        UpdateStatusResult(u, t, "completed", <<>>)) )
              => /\ last'.result = "MissingRepairCost"
                 /\ tickets' = tickets
                 /\ log' = log]_vars

C3_Witness ==
    /\ last.op = "update_status"
    /\ last.result = "MissingRepairCost"
    /\ TicketExists(1)
    /\ tickets[1].status = "in_progress"
    /\ tickets[1].repair_cost = <<>>
    /\ ~tickets[1].is_warranty_covered

\* C4: no step of any handler, nor of the clock, changes the
\* is_warranty_covered column of a stored ticket.
C4_CoverageSnapshotIsFixed ==
    [][\A t \in TicketIds :
          TicketExists(t)
              => tickets'[t].is_warranty_covered
                   = tickets[t].is_warranty_covered]_vars

\* a covered ticket that has been worked on, whose product has since run out
\* of warranty and been soft-deleted
C4_Witness ==
    /\ TicketExists(1)
    /\ tickets[1].is_warranty_covered
    /\ tickets[1].status = "completed"
    /\ warranty_expired(tickets[1].product_id)
    /\ products[tickets[1].product_id].is_deleted
    /\ Len(notes) > 0
    /\ Len(feedback) > 0

\* C5: a successful assign_technician on a ticket that is not open leaves
\* the ticket's status as it was.
C5_AssignKeepsStatusPastOpen ==
    [][\A t \in TicketIds :
          ( /\ last'.op = "assign_technician"
            /\ last'.target = t
            /\ last'.result = "ok"
            /\ TicketExists(t)
            /\ tickets[t].status # "open" )
              => tickets'[t].status = tickets[t].status]_vars

\* C6: update_status on a completed ticket, by the assigned technician or an
\* admin, ends with InvalidTransition and leaves the tickets and the
\* activity log as they were.
C6_CompletedIsLocked ==
    [][\A t \in TicketIds :
          ( /\ last'.op = "update_status"
            /\ last'.target = t
            /\ TicketExists(t)
            /\ tickets[t].status = "completed"
            /\ MayEditStatus(last'.user, t) )
              => /\ last'.result = "InvalidTransition"
                 /\ tickets' = tickets
                 /\ log' = log]_vars

C6_Witness ==
    /\ last.op = "update_status"
    /\ last.result = "InvalidTransition"
    /\ TicketExists(1)
    /\ tickets[1].status = "completed"

\* C7: update_status on a closed or rejected ticket never changes the
\* ticket's status.
C7_ClosedAndRejectedAreLocked ==
    [][\A t \in TicketIds :
          ( /\ last'.op = "update_status"
            /\ last'.target = t
            /\ TicketExists(t)
            /\ tickets[t].status \in {"closed", "rejected"} )
              => tickets'[t].status = tickets[t].status]_vars

\* the caller of the recorded request is the customer who owns the ticket
\* and passes the decorators
OwnsTicket(u, t) ==
    /\ customer_required(u) = "ok"
    /\ tickets[t].customer_id = u

\* C10 as claimed: pay_ticket by the owner on a warranty-covered ticket ends
\* with NotApplicable in every status and leaves the ticket as it was.
C10_PayOnCoveredIsNotApplicable ==
    [][\A t \in TicketIds :
          ( /\ last'.op = "pay_ticket"
            /\ last'.target = t
            /\ TicketExists(t)
            /\ tickets[t].is_warranty_covered
            /\ OwnsTicket(last'.user, t) )
              => /\ last'.result = "NotApplicable"
                 /\ tickets' = tickets]_vars

\* C10 as amended: pay_ticket by the owner on a warranty-covered ticket
\* always fails and leaves the tickets and the activity log as they were;
\* it ends with NotApplicable when the status is completed or closed and
\* with InvalidState in every other status.
C10_PayOnCoveredFails ==
    [][\A t \in TicketIds :
          ( /\ last'.op = "pay_ticket"
            /\ last'.target = t
            /\ TicketExists(t)
            /\ tickets[t].is_warranty_covered
            /\ OwnsTicket(last'.user, t) )
              => /\ last'.result =
                      (IF tickets[t].status \in {"completed", "closed"}
                       THEN "NotApplicable" ELSE "InvalidState")
                 /\ tickets' = tickets
                 /\ log' = log]_vars

C10_Witness ==
    /\ last.op = "pay_ticket"
    /\ last.result = "NotApplicable"
    /\ TicketExists(1)
    /\ tickets[1].is_warranty_covered
    /\ tickets[1].status = "completed"

(***************************************************************************)
(* Properties of concurrent status updates (SpecConc) and of the account   *)
(* gates (SpecAccounts).                                                   *)
(***************************************************************************)
\* C8: two update_status requests on one ticket are serialized: of two
\* committed requests that wrote different statuses to the same ticket, the
\* later one loaded the ticket after the earlier one had committed, so no
\* interleaving lets both read a status other than completed and both commit.
C8_StatusUpdatesAreSerialized ==
    \A i \in DOMAIN commits : \A j \in DOMAIN commits :
        (i < j /\ commits[i].ticket = commits[j].ticket
               /\ commits[i].status # commits[j].status)
            => commits[j].seen >= i

\* the operations of SpecAccounts that write application data
StateChangingOps ==
    {"deactivate_user", "activate_user", "add_product", "delete_product"}

C11_PaySucceedsAndCloses ==
    [][\A t \in TicketIds :
          ( /\ last'.op = "pay_ticket"
            /\ last'.target = t
            /\ TicketExists(t)
            /\ OwnsTicket(last'.user, t)
            /\ ~tickets[t].is_warranty_covered
            /\ ~tickets[t].is_paid
            /\ tickets[t].status \in {"completed", "closed"} )
              => /\ last'.result = "ok"
                 /\ tickets' = [tickets EXCEPT ![t].is_paid = TRUE,
                                               ![t].status = "closed"]
                 /\ log' = Append(log, Activity(last'.user, "payment_processed",
                                                "ticket", t))]_vars

C11_Witness ==
    /\ last.op = "pay_ticket"
    /\ last.result = "ok"
    /\ TicketExists(1)
    /\ tickets[1].is_paid
    /\ tickets[1].status = "closed"
    /\ Len(log) > 0
    /\ log[Len(log)].action = "payment_processed"

\* C12: pay_ticket by the owner on a ticket whose status is not completed or
\* closed ends with InvalidState and changes neither the tickets (is_paid,
\* status) nor the activity log.
C12_PayOutsideCompletedIsInvalidState ==
    [][\A t \in TicketIds :
          ( /\ last'.op = "pay_ticket"
            /\ last'.target = t
            /\ TicketExists(t)
            /\ OwnsTicket(last'.user, t)
            /\ tickets[t].status \notin {"completed", "closed"} )
              => /\ last'.result = "InvalidState"
                 /\ tickets' = tickets
                 /\ log' = log]_vars

C12_Witness ==
    /\ last.op = "pay_ticket"
    /\ last.result = "InvalidState"
    /\ TicketExists(1)
    /\ ~tickets[1].is_warranty_covered
    /\ tickets[1].status = "in_progress"

\* C13: once a ticket's is_paid is true, every pay_ticket by its owner ends
\* with AlreadyPaid and changes nothing.
C13_PaidTicketAnswersAlreadyPaid ==
    [][\A t \in TicketIds :
          ( /\ last'.op = "pay_ticket"
            /\ last'.target = t
            /\ TicketExists(t)
            /\ OwnsTicket(last'.user, t)
            /\ tickets[t].is_paid )
              => /\ last'.result = "AlreadyPaid"
                 /\ tickets' = tickets
                 /\ log' = log]_vars

(***************************************************************************)
(* Properties of feedback (SpecFeedback).                                  *)
(***************************************************************************)
FeedbackOf(t) == {i \in 1..Len(feedback) : feedback[i].ticket_id = t}

C15_FeedbackOnlyAfterCompletion ==
    /\ [][feedback' # feedback =>
             \E t \in TicketIds :
                /\ TicketExists(t)
                /\ last'.op = "add_feedback" /\ last'.target = t
                /\ last'.result = "ok"
                /\ OwnsTicket(last'.user, t)
                /\ tickets[t].status \in {"completed", "closed"}
                /\ Len(feedback') = Len(feedback) + 1
                /\ feedback'[Len(feedback')].ticket_id = t]_vars
    /\ [][\A t \in TicketIds :
             ( /\ last'.op = "add_feedback"
               /\ last'.target = t
               /\ last' # last
               /\ TicketExists(t)
               /\ OwnsTicket(last'.user, t)
               /\ tickets[t].status \notin {"completed", "closed"} )
                 => /\ last'.result = "InvalidState"
                    /\ feedback' = feedback]_vars

C15_Witness ==
    /\ last.op = "add_feedback"
    /\ last.result = "InvalidState"
    /\ TicketExists(1)
    /\ tickets[1].status = "waiting_for_parts"
    /\ feedback = <<>>

(***************************************************************************)
(* Properties of ticket creation (SpecCreate).                             *)
(***************************************************************************)
\* C16: a raise_ticket that succeeds appends one ticket whose
\* is_warranty_covered is true exactly when the customer chose the warranty
\* repair type and the product's warranty had not expired at that moment
\* (expired as the handler tests it: warranty_expiry earlier than now);
\* the ticket belongs to the caller and the chosen product and starts open,
\* with no technician, unpaid and without a repair cost.
C16_CreatedTicketSnapshot ==
    [][\A u \in UserIds, p \in ProductIds, rt \in RepairTypes :
          ( /\ last'.op = "raise_ticket" /\ last'.user = u /\ last'.target = p
            /\ last'.result = "ok"
            /\ tickets' # tickets
            /\ raise_ticket(u, p, rt) )
              => /\ Len(tickets') = Len(tickets) + 1
                 /\ \A i \in 1..Len(tickets) : tickets'[i] = tickets[i]
                 /\ LET tk == tickets'[Len(tickets')] IN
                       /\ tk.is_warranty_covered
                             <=> (rt = "warranty" /\ ~(products[p].warranty_expiry < now))
                       /\ tk.customer_id = u
                       /\ tk.product_id = p
                       /\ tk.status = "open"
                       /\ tk.technician_id = 0
                       /\ tk.is_paid = FALSE
                       /\ tk.repair_cost = <<>>]_vars

\* a paid-repair ticket raised while the warranty was still running
C16_Witness ==
    /\ last.op = "raise_ticket"
    /\ last.result = "ok"
    /\ TicketExists(1)
    /\ ~tickets[1].is_warranty_covered
    /\ ~warranty_expired(tickets[1].product_id)
    /\ tickets[1].status = "open"

\* C17: raise_ticket with repair type warranty by the owner on a product of
\* theirs whose warranty has expired ends with PolicyViolation and leaves
\* the tickets and the activity log as they were.
C17_WarrantyOnExpiredIsRefused ==
    [][\A u \in UserIds, p \in ProductIds :
          ( /\ last'.op = "raise_ticket" /\ last'.user = u /\ last'.target = p
            /\ customer_required(u) = "ok"
            /\ p \in ProductChoices(u)
            /\ products[p].warranty_expiry < now
            /\ raise_ticket(u, p, "warranty") )
              => /\ last'.result = "PolicyViolation"
                 /\ tickets' = tickets
                 /\ log' = log]_vars

C17_Witness ==
    /\ last.op = "raise_ticket"
    /\ last.result = "PolicyViolation"
    /\ ProductExists(last.target)
    /\ warranty_expired(last.target)
    /\ ~products[last.target].is_deleted
    /\ tickets = <<>>

\* C18: raise_ticket on a product that does not exist, belongs to another
\* account or is soft-deleted fails and leaves the tickets as they were;
\* every ticket that is created names a product that the caller owns and
\* that is not soft-deleted at that moment.
C18_TicketOnlyOnOwnLiveProduct ==
    /\ [][\A u \in UserIds, p \in ProductIds :
             ( /\ last'.op = "raise_ticket" /\ last'.user = u /\ last'.target = p
               /\ last' # last
               /\ \/ ~ProductExists(p)
                  \/ products[p].user_id # u
                  \/ products[p].is_deleted )
                 => /\ last'.result \notin {"ok", "PolicyViolation"}
                    /\ tickets' = tickets]_vars
    /\ [][Len(tickets') > Len(tickets) =>
             LET tk == tickets'[Len(tickets')] IN
               /\ ProductExists(tk.product_id)
               /\ products[tk.product_id].user_id = tk.customer_id
               /\ ~products[tk.product_id].is_deleted]_vars

\* a customer was refused on their own soft-deleted product
C18_Witness ==
    /\ last.op = "raise_ticket"
    /\ last.result = "Forbidden"
    /\ ProductExists(last.target)
    /\ products[last.target].user_id = last.user
    /\ products[last.target].is_deleted
    /\ tickets = <<>>

(***************************************************************************)
(* Properties of assignment (Spec, SpecAssign).                            *)
(***************************************************************************)
\* C19: an assign_technician by an admin that succeeds on an open ticket
\* sets the ticket's technician to the chosen account and its status to
\* in_progress, changes nothing else of the tickets, and appends exactly one
\* ticket_assigned entry for the ticket to the log.
C19_AssignOpenTicket ==
    [][\A a \in UserIds, t \in TicketIds, tech \in UserIds :
          ( /\ last'.op = "assign_technician"
            /\ last'.user = a /\ last'.target = t
            /\ last'.result = "ok"
            /\ TicketExists(t)
            /\ tickets[t].status = "open"
            /\ tickets' # tickets
            /\ assign_technician(a, t, tech) )
              => /\ is_admin(a)
                 /\ tickets' = [tickets EXCEPT ![t].technician_id = tech,
                                               ![t].status = "in_progress"]
                 /\ log' = Append(log, Activity(a, "ticket_assigned",
                                                "ticket", t))]_vars

C19_Witness ==
    /\ last.op = "assign_technician"
    /\ last.result = "ok"
    /\ TicketExists(1)
    /\ tickets[1].technician_id = 2
    /\ tickets[1].status = "in_progress"
    /\ log = <<Activity(1, "ticket_assigned", "ticket", 1)>>

\* C20: a request to assign_technician changes the tickets or the log only
\* when the caller's role is admin and the account it assigns has, at that
\* moment, role technician, is active and is not soft-deleted; a request
\* that is refused changes neither.
C20_AssignNeedsAdminAndActiveTechnician ==
    [][\A t \in TicketIds :
          ( /\ last'.op = "assign_technician"
            /\ last'.target = t
            /\ TicketExists(t) )
              => /\ (tickets' # tickets \/ log' # log)
                      => /\ last'.result = "ok"
                         /\ is_admin(last'.user)
                         /\ LET tech == tickets'[t].technician_id IN
                               /\ UserExists(tech)
                               /\ users[tech].role = "technician"
                               /\ users[tech].is_active
                               /\ ~users[tech].is_deleted
                 /\ last'.result # "ok"
                      => (tickets' = tickets /\ log' = log)]_vars

\* the admin was refused the assignment of a deactivated technician
C20_Witness ==
    /\ last.op = "assign_technician"
    /\ last.user = 1
    /\ last.result = "NotFound"
    /\ ~users[2].is_active
    /\ TicketExists(1)
    /\ tickets[1].technician_id = 0

(***************************************************************************)
(* Properties of the technician's handlers (SpecTech).                     *)
(***************************************************************************)
\* C21: an update_status or add_note request changes the tickets, the notes
\* or the log only when its caller has role admin, or has role technician
\* and is the technician the ticket is assigned to at that moment; a
\* customer and a technician the ticket is not assigned to are refused.
C21_OnlyAssignedTechnicianOrAdminEdits ==
    [][\A t \in TicketIds :
          ( /\ last'.op \in {"update_status", "add_note"}
            /\ last'.target = t
            /\ TicketExists(t) )
              => LET u == last'.user
                     allowed == \/ is_admin(u)
                                \/ /\ is_technician(u)
                                   /\ tickets[t].technician_id = u
                 IN  /\ (tickets' # tickets \/ notes' # notes \/ log' # log)
                          => allowed
                     /\ ~allowed => last'.result = "Forbidden"]_vars

\* a technician was refused on a ticket that is not assigned to them
C21_Witness ==
    /\ last.op = "update_status"
    /\ last.user = 2
    /\ last.result = "Forbidden"
    /\ TicketExists(1)
    /\ tickets[1].technician_id # 2

(***************************************************************************)
(* Properties of the audit trail (SpecAudit).                              *)
(***************************************************************************)
\* the action name each handler logs
LoggedAction(op) ==
    CASE op = "assign_technician" -> "ticket_assigned"
      [] op = "update_status" -> "ticket_status_updated"
      [] op = "pay_ticket" -> "payment_processed"

\* C22: a request to assign_technician, update_status or pay_ticket that
\* succeeds appends exactly its own log entry in the step that writes the
\* ticket; a request that fails, a failure of session.commit() included,
\* changes neither the tickets nor the log; so the tickets never change
\* without the entry and no entry appears without the request's commit.
C22_TicketAndLogCommitTogether ==
    [][\A t \in TicketIds :
          ( /\ last'.op \in {"assign_technician", "update_status", "pay_ticket"}
            /\ last'.target = t
            /\ TicketExists(t) )
              => /\ last'.result = "ok"
                      => log' = Append(log, Activity(last'.user,
                                                     LoggedAction(last'.op),
                                                     "ticket", t))
                 /\ last'.result # "ok"
                      => (tickets' = tickets /\ log' = log)
                 /\ tickets' # tickets
                      => (last'.result = "ok" /\ Len(log') = Len(log) + 1)
                 /\ log' # log => last'.result = "ok"]_vars

\* a commit of update_status failed and left ticket and log as they were
C22_Witness ==
    /\ last.op = "update_status"
    /\ last.result = "StorageError"
    /\ TicketExists(1)
    /\ tickets[1].status = "in_progress"
    /\ log = <<Activity(1, "ticket_assigned", "ticket", 1)>>

(***************************************************************************)
(* Properties of the product catalog (SpecSerial).                         *)
(***************************************************************************)
\* C23: no two product rows ever hold the same serial number; a registration
\* that commits while another row holds its serial number answers Conflict
\* and stores nothing, one that commits while the serial number is free
\* succeeds and stores one row, so of two registrations of one serial
\* number in flight together exactly one succeeds; an edit that would
\* duplicate a serial number is refused the same way.
C23_SerialNumbersAreUnique ==
    /\ [](\A p, q \in 1..Len(products) :
             p # q => products[p].serial_number # products[q].serial_number)
    /\ [][\A w \in Workers :
            /\ (reqs[w].pc = "add_product" /\ reqs'[w].pc = "idle")
                 => IF SerialTaken(0, reqs[w].serial)
                    THEN last'.result = "Conflict" /\ products' = products
                    ELSE /\ last'.result = "ok"
                         /\ Len(products') = Len(products) + 1
                         /\ products'[Len(products')].serial_number
                               = reqs[w].serial
            /\ (reqs[w].pc = "edit_product" /\ reqs'[w].pc = "idle")
                 => IF SerialTaken(reqs[w].product, WrittenSerial(w))
                    THEN last'.result = "Conflict" /\ products' = products
                    ELSE last'.result = "ok"]_vars

\* a registration of SN1 by one customer was refused at its commit because
\* the other customer's registration of SN1 had committed first
C23_Witness ==
    /\ last.op = "add_product"
    /\ last.result = "Conflict"
    /\ Len(products) = 1
    /\ products[1].serial_number = "SN1"
    /\ products[1].user_id # last.user

\* C24: a product that is not soft-deleted is expired exactly when
\* now >= purchase_date + 30 * warranty_months days, the instant of expiry
\* included; before that it is expiring_soon when fewer than 30 days remain
\* and active otherwise.
C24_ExpiredFromTheInstantOfExpiry ==
    \A p \in 1..Len(products) :
        ~products[p].is_deleted =>
            LET expiry == products[p].purchase_date
                            + DaysPerMonth * products[p].warranty_months
            IN  /\ warranty_status(p) = "expired" <=> now >= expiry
                /\ now < expiry =>
                      warranty_status(p) = IF expiry - now < ExpiringSoonDays
                                           THEN "expiring_soon" ELSE "active"

(***************************************************************************)
(* Properties of account administration (SpecAssign, SpecRoles).           *)
(***************************************************************************)
\* C25: a deactivate_user request of a signed-in admin that names the
\* admin's own account ends with Forbidden and changes neither the users
\* nor the activity log.
C25_AdminCannotDeactivateSelf ==
    [][( /\ last'.op = "deactivate_user"
         /\ last'.target = last'.user
         /\ admin_required(last'.user) = "ok" )
           => /\ last'.result = "Forbidden"
              /\ users' = users
              /\ log' = log]_vars

C25_Witness ==
    /\ last = Outcome("deactivate_user", 1, 1, "Forbidden")
    /\ users[1].is_active
    /\ \E i \in 1..Len(log) : log[i].action = "user_deactivated"

\* C26: the role of a stored account changes only in a step of edit_user
\* requested by a signed-in account whose role is admin; an account row is
\* created only with role customer or technician; no row is removed.
C26_RolesChangeOnlyByAdminEdit ==
    [][/\ Len(users') >= Len(users)
       /\ \A x \in 1..Len(users') :
             IF x \in 1..Len(users)
             THEN users'[x].role # users[x].role
                    => /\ last'.op = "edit_user"
                       /\ last'.target = x
                       /\ UserExists(last'.user)
                       /\ is_admin(last'.user)
                       /\ last'.user \in loggedIn
             ELSE /\ last'.op = "register"
                  /\ users'[x].role \in {"customer", "technician"}]_vars

\* the admin made the registered account an admin, which then changed the
\* role of the first account
C26_Witness ==
    /\ last.op = "edit_user"
    /\ last.user = 2
    /\ last.result = "ok"
    /\ Len(users) = 2
    /\ users[2].role = "admin"
    /\ users[1].role = "customer"

\* C28: every step that changes the role of a stored account appends the
\* user_updated entry of that account to the activity log in the same step,
\* whichever commit of the request fails.
C28_RoleChangeHasItsLogEntry ==
    [][\A x \in 1..Len(users) :
          users'[x].role # users[x].role
            => log' = Append(log, Activity(last'.user, "user_updated",
                                           "user", x))]_vars

(***************************************************************************)
(* Properties of the technician's listing (SpecListing).                   *)
(***************************************************************************)
\* how severe a priority is
Severity(priority) ==
    CASE priority = "urgent" -> 4
      [] priority = "high" -> 3
      [] priority = "medium" -> 2
      [] priority = "low" -> 1

\* C27: the listing a technician gets holds exactly the technician's
\* assigned tickets that are not soft-deleted, the more severe priority
\* first (urgent, high, medium, low) and, within one priority, the ticket
\* created earlier first.
C27_ListingBySeverityThenAge ==
    ( /\ last.op = "tickets"
      /\ technician_required(last.user) = "ok" )
        => LET listing == last.result IN
           /\ {listing[i] : i \in 1..Len(listing)} = AssignedTickets(last.user)
           /\ Len(listing) = Cardinality(AssignedTickets(last.user))
           /\ \A i, j \in 1..Len(listing) :
                 i < j =>
                   LET a == tickets[listing[i]]
                       b == tickets[listing[j]]
                   IN  \/ Severity(a.priority) > Severity(b.priority)
                       \/ /\ a.priority = b.priority
                          /\ a.created_at < b.created_at

(***************************************************************************)
(* Properties of ticket numbers (SpecNumbers).                             *)
(***************************************************************************)
\* C29: no two stored tickets ever hold the same ticket number; a
\* raise_ticket request whose generated number a stored ticket already
\* holds ends with Conflict and stores no ticket.
C29_TicketNumbersAreUnique ==
    /\ [](\A t1, t2 \in 1..Len(tickets) :
             t1 # t2 => tickets[t1].ticket_number # tickets[t2].ticket_number)
    /\ [][\A u \in UserIds, p \in ProductIds, rt \in RepairTypes,
            sfx \in Suffixes :
              ( /\ raise_numbered_ticket(u, p, rt, sfx)
                /\ last' = Outcome("raise_ticket", u, p, last'.result)
                /\ RaiseTicketResult(u, p, rt) = "ok"
                /\ \E t \in 1..Len(tickets) :
                      tickets[t].ticket_number
                        = generate_ticket_number(now, sfx) )
                  => tickets' = tickets]_vars
    /\ [][last'.result = "Conflict" => tickets' = tickets]_vars

\* the second request of a day drew the suffix of the first and was refused
C29_Witness ==
    /\ last = Outcome("raise_ticket", 3, 1, "Conflict")
    /\ Len(tickets) = 1
    /\ tickets[1].ticket_number = generate_ticket_number(now, "A1B2C3")

(***************************************************************************)
(* Properties of stored products (SpecProducts).                           *)
(***************************************************************************)
\* C30: every stored product has warranty_expiry = purchase_date + 30 *
\* warranty_months days and warranty_months between 1 and 120, whatever
\* add_product and edit_product requests were served.
C30_ExpiryFollowsPurchaseAndMonths ==
    \A p \in 1..Len(products) :
        /\ products[p].warranty_expiry
              = products[p].purchase_date + 30 * products[p].warranty_months
        /\ products[p].warranty_months \in 1..120

\* a product added with one month was edited to 120 months from day 30
C30_Witness ==
    /\ last.op = "edit_product"
    /\ last.result = "ok"
    /\ products[1].purchase_date = 30
    /\ products[1].warranty_months = 120
    /\ products[1].warranty_expiry = 3630

(***************************************************************************)
(* Properties of the journals (SpecAll).                                   *)
(***************************************************************************)
IsPrefix(s, t) ==
    /\ Len(s) <= Len(t)
    /\ \A i \in 1..Len(s) : s[i] = t[i]

\* C31: every step leaves the stored activity log entries and repair notes
\* as they are and at most appends to them, so the entries of a state are
\* a prefix of the entries of every later state.
C31_LogAndNotesAreAppendOnly ==
    [][IsPrefix(log, log') /\ IsPrefix(notes, notes')]_vars

\* a note and two log entries stored, and a request served after them
C31_Witness ==
    /\ Len(notes) = 1
    /\ Len(log) >= 2
    /\ log[1].action = "ticket_assigned"
    /\ TicketExists(1)
    /\ tickets[1].is_paid

(***************************************************************************)
(* Properties of concurrent payments (SpecPay).                            *)
(***************************************************************************)
PaymentEntries(t) ==
    {i \in 1..Len(log) : /\ log[i].action = "payment_processed"
                         /\ log[i].resource_id = t}

\* C32: whatever the interleaving of pay_ticket requests, the activity log
\* holds at most one payment_processed entry for a ticket.
C32_AtMostOnePaymentPerTicket ==
    \A t \in TicketIds : Cardinality(PaymentEntries(t)) <= 1

(***************************************************************************)
(* Invariants of stored rows (Spec, SpecAudit, SpecOwnership, SpecRoles).  *)
(***************************************************************************)
\* C33: every stored ticket whose is_paid is true has status closed.
C33_PaidTicketIsClosed ==
    \A t \in 1..Len(tickets) :
        tickets[t].is_paid => tickets[t].status = "closed"

\* C34: every stored ticket whose is_paid is true has a repair cost.
C34_PaidTicketHasRepairCost ==
    \A t \in 1..Len(tickets) :
        tickets[t].is_paid => tickets[t].repair_cost # <<>>

\* C35: no stored ticket is both warranty-covered and paid.
C35_CoveredTicketIsNeverPaid ==
    \A t \in 1..Len(tickets) :
        ~(tickets[t].is_warranty_covered /\ tickets[t].is_paid)

\* a covered, closed ticket whose owner asked to pay and was refused
C35_Witness ==
    /\ last = Outcome("pay_ticket", 3, 1, "NotApplicable")
    /\ tickets[1].is_warranty_covered
    /\ tickets[1].status = "closed"
    /\ ~tickets[1].is_paid

\* C36: every stored ticket whose status is not open has a technician.
C36_TicketPastOpenHasTechnician ==
    \A t \in 1..Len(tickets) :
        tickets[t].status # "open" => tickets[t].technician_id # 0

\* C37: the customer of every stored ticket is the owner of the product the
\* ticket references, and no step changes the customer or the product of a
\* stored ticket or the owner of a stored product.
C37_TicketCustomerOwnsProduct ==
    /\ [](\A t \in 1..Len(tickets) :
             /\ ProductExists(tickets[t].product_id)
             /\ tickets[t].customer_id
                   = products[tickets[t].product_id].user_id)
    /\ [][/\ \A t \in 1..Len(tickets) :
               /\ tickets'[t].customer_id = tickets[t].customer_id
               /\ tickets'[t].product_id = tickets[t].product_id
          /\ \A p \in 1..Len(products) :
               products'[p].user_id = products[p].user_id]_vars

\* the other customer asked for a ticket on the product and was refused;
\* the owner's ticket, raised earlier, is stored and closed, and the product
\* has been soft-deleted since
C37_Witness ==
    /\ last.op = "raise_ticket"
    /\ last.result = "Forbidden"
    /\ TicketExists(1)
    /\ last.user # tickets[1].customer_id
    /\ is_customer(last.user)
    /\ products[1].is_deleted
    /\ products[1].warranty_months = 2
    /\ tickets[1].status = "closed"

\* C38: in every state some stored account has role admin, is active and
\* is not soft-deleted.
C38_AnActiveAdminExists ==
    \E u \in 1..Len(users) :
        /\ users[u].role = "admin"
        /\ users[u].is_active
        /\ ~users[u].is_deleted

============================================================================
